---- MODULE Spec2Model ----
(***************************************************************************)
(* The GeoServer REST catalog client (opengeo/geoserver/catalog.py): the   *)
(* five-second response cache of get_xml, the mutating calls that clear    *)
(* it, and the by-name store lookups built on top of both.                 *)
(***************************************************************************)
EXTENDS Integers, Sequences, FiniteSets, TLC

VARIABLES
    cache,   \* Catalog._cache: rest_url -> (timestamp, raw content)
    now,     \* the wall clock read by datetime.now(), in seconds
    server,  \* the workspace/store configuration the remote server answers with
    last,    \* the most recent catalog call: operation, arguments, outcome, the
             \* requests it sent and the URLs the cache held when it began
    hist,    \* history: per URL the last 200 GET since the last mutating request
    dialog   \* the catalog definition dialog: its boxes, its fields and the
             \* catalogs of the explorer it was opened from

vars == <<cache, now, server, last, hist, dialog>>

(***************************************************************************)
(* Bounds of the model and constants of the program.                       *)
(***************************************************************************)
MaxTime == 5

MaxStores == 2

TTL == 5

WsNames == {"default", "topp"}

StoreNames == {"roads", "dem"}

(***************************************************************************)
(* Values: None, URLs, payloads, responses, outcomes.                      *)
(***************************************************************************)
None == [kind |-> "None"]

Url(path) == [path |-> path, query |-> <<>>]

Text(s) == [kind |-> "text", text |-> s]

Doc(children) == [kind |-> "xml", children |-> children]

Elem(tag, name) == [tag |-> tag, name |-> name]

Return(v) == [exc |-> "none", val |-> v]

Raise(e, detail) == [exc |-> e, val |-> detail]

Req(method, u, resp) ==
    [method |-> method, url |-> u, status |-> resp.status, content |-> resp.content]

EmptyCache == <<>>

(***************************************************************************)
(* xml.etree.ElementTree.XML: a well-formed payload becomes a tree, any    *)
(* other payload is a parse error.                                         *)
(***************************************************************************)
XML(xml) ==
    IF xml.kind = "xml"
    THEN [ok |-> TRUE, tree |-> [kind |-> "tree", children |-> xml.children]]
    ELSE [ok |-> FALSE, tree |-> None]

findall(tree, tag) == SelectSeq(tree.children, LAMBDA n : n.tag = tag)

(***************************************************************************)
(* Catalog.get_xml and its two local functions.                            *)
(***************************************************************************)
\* a plausible slip: the entry expires a second early
is_valid_early(c, rest_url, t) ==
    rest_url \in DOMAIN c /\ t - c[rest_url].ts < TTL - 1

is_valid(c, rest_url, t) ==
    rest_url \in DOMAIN c /\ t - c[rest_url].ts < TTL

\* a plausible slip: the message is formatted without the URL
DecodeErrorWithoutUrl(rest_url, xml) ==
    [kind |-> "decode", msg |-> "GeoServer gave non-XML response: %s",
     url |-> None, payload |-> xml]

DecodeError(rest_url, xml) ==
    [kind |-> "decode", msg |-> "GeoServer gave non-XML response for [GET %s]: %s",
     url |-> rest_url, payload |-> xml]

parse_or_raise(rest_url, xml) ==
    IF XML(xml).ok
    THEN Return(XML(xml).tree)
    ELSE Raise("Exception", DecodeError(rest_url, xml))

\* a plausible slip: the answer is stored before its status is looked at
get_xml_storing_first(c, t, rest_url, resp) ==
    IF is_valid(c, rest_url, t)
    THEN [cache |-> c, out |-> parse_or_raise(rest_url, c[rest_url].content),
          reqs |-> <<>>]
    ELSE [cache |-> (rest_url :> [ts |-> t, content |-> resp.content]) @@ c,
          out |-> IF resp.status = 200
                  THEN parse_or_raise(rest_url, resp.content)
                  ELSE Raise("FailedRequestError", resp.content),
          reqs |-> <<Req("GET", rest_url, resp)>>]

\* resp is the answer the transport gives if (and only if) a request is made.
get_xml(c, t, rest_url, resp) ==
    IF is_valid(c, rest_url, t)
    THEN [cache |-> c, out |-> parse_or_raise(rest_url, c[rest_url].content),
          reqs |-> <<>>]
    ELSE IF resp.status = 200
    THEN [cache |-> (rest_url :> [ts |-> t, content |-> resp.content]) @@ c,
          out |-> parse_or_raise(rest_url, resp.content),
          reqs |-> <<Req("GET", rest_url, resp)>>]
    ELSE [cache |-> c, out |-> Raise("FailedRequestError", resp.content),
          reqs |-> <<Req("GET", rest_url, resp)>>]

(***************************************************************************)
(* History of the requests of a call, in order: a GET answered 200 is      *)
(* remembered with the time of the call, any PUT/POST/DELETE forgets all.  *)
(***************************************************************************)
RECURSIVE HistAfter(_, _, _)
HistAfter(h, reqs, t) ==
    IF reqs = <<>> THEN h
    ELSE LET r == Head(reqs)
             h1 == IF r.method # "GET" THEN <<>>
                   ELSE IF r.status = 200
                        THEN (r.url :> [ts |-> t, content |-> r.content]) @@ h
                        ELSE h
         IN  HistAfter(h1, Tail(reqs), t)

(***************************************************************************)
(* Inputs of the cache-side specification.                                 *)
(***************************************************************************)
LayersUrl == Url(<<"layers.xml">>)

StylesUrl == Url(<<"styles.xml">>)

SampleUrls == {LayersUrl, StylesUrl}

Garbage == Text("<html>Error</html>")

SampleContents == {Doc(<<Elem("layer", "roads")>>), Doc(<<>>), Garbage}

GetResponses == [status : {200, 404}, content : SampleContents]

Statuses == {200, 201, 204, 302, 404, 500}

Bodies == {Text(""), Text("No such resource")}

PushResponses == [status : Statuses, content : Bodies]

\* configuration objects handed to save and delete: href, save_method, message()
Entities ==
    {[href |-> <<"workspaces", "topp", "datastores", "roads.xml">>,
      save_method |-> "PUT", message |-> "<dataStore/>"],
     [href |-> <<"layergroups">>,
      save_method |-> "POST", message |-> "<layerGroup/>"]}

\* the record of a call: r is what the call computed
Call(op, args, r) ==
    [op |-> op, args |-> args, out |-> r.out, reqs |-> r.reqs, pre |-> DOMAIN cache]

(***************************************************************************)
(* Catalog.delete                                                          *)
(***************************************************************************)
\* a plausible slip: the cache is cleared only once the status has been accepted
delete_clearing_on_success(c, config_object, purge, recurse, resp) ==
    LET params == (IF purge THEN <<"purge=true">> ELSE <<>>)
                  \o (IF recurse THEN <<"recurse=true">> ELSE <<>>)
        rest_url == [path |-> config_object.href, query |-> params]
    IN  [cache |-> IF resp.status = 200 THEN EmptyCache ELSE c,
         out |-> IF resp.status = 200
                 THEN Return([kind |-> "pair", response |-> resp.status,
                              content |-> resp.content])
                 ELSE Raise("FailedRequestError", resp.content),
         reqs |-> <<Req("DELETE", rest_url, resp)>>]

delete(c, config_object, purge, recurse, resp) ==
    LET params == (IF purge THEN <<"purge=true">> ELSE <<>>)
                  \o (IF recurse THEN <<"recurse=true">> ELSE <<>>)
        rest_url == [path |-> config_object.href, query |-> params]
    IN  [cache |-> EmptyCache,
         out |-> IF resp.status = 200
                 THEN Return([kind |-> "pair", response |-> resp.status,
                              content |-> resp.content])
                 ELSE Raise("FailedRequestError", resp.content),
         reqs |-> <<Req("DELETE", rest_url, resp)>>]

(***************************************************************************)
(* Catalog.save                                                            *)
(***************************************************************************)
\* a plausible slip: every status but 2xx is refused
save_refusing_non_2xx(c, obj, resp) ==
    [cache |-> EmptyCache,
     out |-> IF resp.status < 200 \/ resp.status > 299
             THEN Raise("FailedRequestError", resp.content)
             ELSE Return([kind |-> "pair", response |-> resp.status,
                          content |-> resp.content]),
     reqs |-> <<Req(obj.save_method, Url(obj.href), resp)>>]

save(c, obj, resp) ==
    [cache |-> EmptyCache,
     out |-> IF 400 <= resp.status /\ resp.status < 600
             THEN Raise("FailedRequestError", resp.content)
             ELSE Return([kind |-> "pair", response |-> resp.status,
                          content |-> resp.content]),
     reqs |-> <<Req(obj.save_method, Url(obj.href), resp)>>]

(***************************************************************************)
(* Catalog.reload                                                          *)
(***************************************************************************)
reload(c, resp) ==
    [cache |-> EmptyCache,
     out |-> Return([kind |-> "pair", response |-> resp.status,
                     content |-> resp.content]),
     reqs |-> <<Req("POST", Url(<<"reload">>), resp)>>]

(***************************************************************************)
(* Catalog.get_default_workspace, util.name                                *)
(***************************************************************************)
Workspace(name) == [kind |-> "Workspace", name |-> name]

get_default_workspace == Workspace("default")

(***************************************************************************)
(* Catalog.create_pg_featuretype                                           *)
(***************************************************************************)
create_pg_featuretype(c, name, store, workspace, resp) ==
    LET ws == IF workspace = None THEN get_default_workspace ELSE workspace
        ds_url == Url(<<"workspaces", ws.name, "datastores", store,
                        "featuretypes.xml">>)
    IN  [cache |-> c,
         out |-> IF resp.status # 201 /\ resp.status # 200
                 THEN Raise("UploadError", resp.content)
                 ELSE Return(None),
         reqs |-> <<Req("POST", ds_url, resp)>>]

(***************************************************************************)
(* The server's configuration and the answers it gives to GET.             *)
(* index: the names workspaces.xml lists; stores: how many entries each    *)
(* listing holds per name.  A listing of a workspace the server does not   *)
(* have answers 404.                                                       *)
(***************************************************************************)
Kinds == {"dataStore", "coverageStore"}

Slots == WsNames \X Kinds \X StoreNames

IndexDocs ==
    {<<>>, <<"default">>, <<"topp">>, <<"default", "topp">>, <<"topp", "topp">>}

Range(s) == {s[i] : i \in 1..Len(s)}

RECURSIVE Sum(_, _)
Sum(f, S) ==
    IF S = {} THEN 0
    ELSE LET x == CHOOSE y \in S : TRUE IN f[x] + Sum(f, S \ {x})

ServerStates ==
    {srv \in [index : IndexDocs, stores : [Slots -> 0..MaxStores]] :
        /\ Sum(srv.stores, Slots) <= MaxStores
        /\ \A sl \in Slots : srv.stores[sl] > 0 => sl[1] \in Range(srv.index)}

Rep(x, n) == [i \in 1..n |-> x]

Listing(srv, w, kind) ==
    Rep(Elem(kind, "dem"), srv.stores[<<w, kind, "dem">>])
    \o Rep(Elem(kind, "roads"), srv.stores[<<w, kind, "roads">>])

WorkspacesUrl == Url(<<"workspaces.xml">>)

datastore_url(workspace) == Url(<<"workspaces", workspace.name, "datastores.xml">>)

coveragestore_url(workspace) == Url(<<"workspaces", workspace.name, "coveragestores.xml">>)

NotFound == [status |-> 404, content |-> Text("No such workspace")]

Respond(srv, u) ==
    IF u = WorkspacesUrl
    THEN [status |-> 200,
          content |-> Doc([i \in 1..Len(srv.index) |-> Elem("workspace", srv.index[i])])]
    ELSE IF \E w \in Range(srv.index) : u = datastore_url(Workspace(w))
    THEN LET w == CHOOSE x \in Range(srv.index) : u = datastore_url(Workspace(x))
         IN  [status |-> 200, content |-> Doc(Listing(srv, w, "dataStore"))]
    ELSE IF \E w \in Range(srv.index) : u = coveragestore_url(Workspace(w))
    THEN LET w == CHOOSE x \in Range(srv.index) : u = coveragestore_url(Workspace(x))
         IN  [status |-> 200, content |-> Doc(Listing(srv, w, "coverageStore"))]
    ELSE NotFound

(***************************************************************************)
(* Entity resolvers (workspace.py, store.py): handles built from an index  *)
(* node.                                                                   *)
(***************************************************************************)
workspace_from_index(node) == Workspace(node.name)

datastore_from_index(workspace, node) ==
    [kind |-> "DataStore", name |-> node.name, workspace |-> workspace]

coveragestore_from_index(workspace, node) ==
    [kind |-> "CoverageStore", name |-> node.name, workspace |-> workspace]

\* a workspace argument given as a name (a basestring)
Str(s) == [kind |-> "str", name |-> s]

isinstance_basestring(x) == x.kind = "str"

\* Python truth value of None or an entity handle
Truthy(v) == v # None

\* r, followed by step applied to the cache r left, unless r raised
Chain(r, rest) ==
    [cache |-> rest.cache, out |-> rest.out, reqs |-> r.reqs \o rest.reqs]

(***************************************************************************)
(* Catalog.get_workspaces, Catalog.get_workspace                           *)
(***************************************************************************)
get_workspaces(c, t, srv) ==
    LET r == get_xml(c, t, WorkspacesUrl, Respond(srv, WorkspacesUrl))
    IN  IF r.out.exc # "none" THEN r
        ELSE LET nodes == findall(r.out.val, "workspace")
             IN  [r EXCEPT !.out = Return([kind |-> "list",
                     items |-> [i \in 1..Len(nodes) |-> workspace_from_index(nodes[i])]])]

\* a plausible slip: the first of several workspaces of the name is returned
get_workspace_first(c, t, srv, name) ==
    LET r == get_workspaces(c, t, srv)
    IN  IF r.out.exc # "none" THEN r
        ELSE LET candidates == SelectSeq(r.out.val.items, LAMBDA w : w.name = name)
             IN  [r EXCEPT !.out =
                     IF Len(candidates) = 0 THEN Return(None)
                     ELSE Return(candidates[1])]

get_workspace(c, t, srv, name) ==
    LET r == get_workspaces(c, t, srv)
    IN  IF r.out.exc # "none" THEN r
        ELSE LET candidates == SelectSeq(r.out.val.items, LAMBDA w : w.name = name)
             IN  [r EXCEPT !.out =
                     IF Len(candidates) = 0 THEN Return(None)
                     ELSE IF Len(candidates) > 1
                          THEN Raise("AmbiguousRequestError", Text(""))
                          ELSE Return(candidates[1])]

(***************************************************************************)
(* Catalog.get_store                                                       *)
(***************************************************************************)
NoStoreIn(workspace, name) ==
    [kind |-> "msg", text |-> "No store found in %s named: %s",
     workspace |-> workspace, name |-> name]

NoStore(name) ==
    [kind |-> "msg", text |-> "No store found named: %s", workspace |-> None,
     name |-> name]

NotUnique(workspace, name) ==
    [kind |-> "msg", text |-> "%s and name: %s do not uniquely identify a layer",
     workspace |-> workspace, name |-> name]

MultipleStores(name) ==
    [kind |-> "msg", text |-> "Multiple stores found named: %s", workspace |-> None,
     name |-> name]

\* a plausible slip: the first matching entry is taken, however many match
pick_store_first(workspace, name, ds_list, cs_list) ==
    LET datastores == SelectSeq(findall(ds_list, "dataStore"), LAMBDA n : n.name = name)
        coveragestores == SelectSeq(findall(cs_list, "coverageStore"),
                                    LAMBDA n : n.name = name)
    IN  IF Len(datastores) >= 1
        THEN Return(datastore_from_index(workspace, datastores[1]))
        ELSE IF Len(coveragestores) >= 1
        THEN Return(coveragestore_from_index(workspace, coveragestores[1]))
        ELSE Raise("FailedRequestError", NoStoreIn(workspace, name))

\* lines 222-233: the entries called name in each listing, and what they resolve to
pick_store(workspace, name, ds_list, cs_list) ==
    LET datastores == SelectSeq(findall(ds_list, "dataStore"), LAMBDA n : n.name = name)
        coveragestores == SelectSeq(findall(cs_list, "coverageStore"),
                                    LAMBDA n : n.name = name)
        ds_len == Len(datastores)
        cs_len == Len(coveragestores)
    IN  IF ds_len = 1 /\ cs_len = 0
        THEN Return(datastore_from_index(workspace, datastores[1]))
        ELSE IF ds_len = 0 /\ cs_len = 1
        THEN Return(coveragestore_from_index(workspace, coveragestores[1]))
        ELSE IF ds_len = 0 /\ cs_len = 0
        THEN Raise("FailedRequestError", NoStoreIn(workspace, name))
        ELSE Raise("AmbiguousRequestError", NotUnique(workspace, name))

\* the second listing, once the first (r1) has been read
get_store_listings(r1, t, srv, name, workspace) ==
    IF r1.out.exc # "none" THEN r1
    ELSE Chain(r1, get_xml(r1.cache, t, coveragestore_url(workspace),
                           Respond(srv, coveragestore_url(workspace))))

\* the resolved store, once both listings (r1, r2) have been read
get_store_pick(r1, r2, name, workspace) ==
    IF r2.out.exc # "none" THEN r2
    ELSE [r2 EXCEPT !.out = pick_store(workspace, name, r1.out.val, r2.out.val)]

\* lines 219-233, the branch for a workspace object: both listings, filtered by name
get_store_in(c, t, srv, name, workspace) ==
    get_store_pick(get_xml(c, t, datastore_url(workspace),
                           Respond(srv, datastore_url(workspace))),
                   get_store_listings(get_xml(c, t, datastore_url(workspace),
                                              Respond(srv, datastore_url(workspace))),
                                      t, srv, name, workspace),
                   name, workspace)

\* a plausible slip: a later match replaces an earlier one instead of being refused
RECURSIVE get_store_loop_last(_, _, _, _, _, _)
get_store_loop_last(c, t, srv, name, wss, store) ==
    IF wss = <<>>
    THEN [cache |-> c, reqs |-> <<>>,
          out |-> IF store = None
                  THEN Raise("FailedRequestError", NoStore(name))
                  ELSE Return(store)]
    ELSE LET r == get_store_in(c, t, srv, name, Head(wss))
         IN  Chain(r, get_store_loop_last(r.cache, t, srv, name, Tail(wss),
                        IF r.out.exc = "none" THEN r.out.val ELSE store))

\* the loop of the branch without a workspace, over the workspaces still to visit
RECURSIVE get_store_loop(_, _, _, _, _, _)
get_store_loop(c, t, srv, name, wss, store) ==
    IF wss = <<>>
    THEN [cache |-> c, reqs |-> <<>>,
          out |-> IF ~Truthy(store)
                  THEN Raise("FailedRequestError", NoStore(name))
                  ELSE Return(store)]
    ELSE LET r == get_store_in(c, t, srv, name, Head(wss))
             found == IF r.out.exc = "none" THEN r.out.val ELSE None
         IN  IF Truthy(found) /\ Truthy(store)
             THEN [r EXCEPT !.out = Raise("AmbiguousRequestError", MultipleStores(name))]
             ELSE Chain(r, get_store_loop(r.cache, t, srv, name, Tail(wss),
                                          IF Truthy(found) THEN found ELSE store))

get_store(c, t, srv, name, workspace) ==
    IF workspace = None
    THEN LET r == get_workspaces(c, t, srv)
         IN  IF r.out.exc # "none" THEN r
             ELSE Chain(r, get_store_loop(r.cache, t, srv, name, r.out.val.items, None))
    ELSE IF isinstance_basestring(workspace)
    THEN LET r == get_workspace(c, t, srv, workspace.name)
         IN  IF r.out.exc # "none" \/ r.out.val = None THEN r
             ELSE Chain(r, get_store_in(r.cache, t, srv, name, r.out.val))
    ELSE get_store_in(c, t, srv, name, workspace)

(***************************************************************************)
(* Catalog.create_pg_featurestore                                          *)
(***************************************************************************)
\* util.name: the name of a workspace given as an object or as a name
util_name(x) == x.name

\* str() of a port number
Digits == <<"0", "1", "2", "3", "4", "5", "6", "7", "8", "9">>

RECURSIVE str(_)
str(n) == IF n < 10 THEN Digits[n + 1] ELSE str(n \div 10) \o Digits[(n % 10) + 1]

\* a user argument that is None rather than a string
NoUser == "<None>"

\* store.connection_parameters: held is what the server keeps for the store;
\* only a data store has connection parameters
connection_parameters(store, held) ==
    IF store.kind = "DataStore" THEN Return(held)
    ELSE Raise("AttributeError", Text("connection_parameters"))

AlreadyThere(name, workspace) ==
    [kind |-> "msg", text |-> "There is already a store named %s in %s",
     workspace |-> workspace, name |-> name]

\* a plausible slip: the user is left out of the comparison with the existing store
pg_store_request_ignoring_user(g, store, name, ws, overwrite, host, port, database, schema, user, passwd, held, resp) ==
    IF store # None /\ ~overwrite
    THEN [cache |-> g.cache, reqs |-> g.reqs,
          out |-> Raise("ConflictingDataError", AlreadyThere(name, ws))]
    ELSE IF store # None /\ connection_parameters(store, held).exc # "none"
    THEN [cache |-> g.cache, reqs |-> g.reqs,
          out |-> connection_parameters(store, held)]
    ELSE IF /\ store # None
            /\ held.port = str(port)
            /\ held.database = database
            /\ held.host = host
    THEN [cache |-> g.cache, reqs |-> g.reqs, out |-> Return(None)]
    ELSE IF user = NoUser
    THEN [cache |-> g.cache, reqs |-> g.reqs,
          out |-> Raise("Exception", Text("Undefined user"))]
    ELSE [cache |-> EmptyCache,
          reqs |-> g.reqs \o
              <<Req(IF store # None THEN "PUT" ELSE "POST",
                    IF store # None
                    THEN Url(<<"workspaces", util_name(ws), "datastores", name>>)
                    ELSE Url(<<"workspaces", util_name(ws), "datastores.xml">>),
                    resp)>>,
          out |-> IF resp.status # 201 /\ resp.status # 200
                  THEN Raise("UploadError", resp.content)
                  ELSE Return(None)]

\* lines 317-367: store is the existing store or None, g the lookup that found it
pg_store_request(g, store, name, ws, overwrite, host, port, database, schema, user, passwd, held, resp) ==
    IF store # None /\ ~overwrite
    THEN [cache |-> g.cache, reqs |-> g.reqs,
          out |-> Raise("ConflictingDataError", AlreadyThere(name, ws))]
    ELSE IF store # None /\ connection_parameters(store, held).exc # "none"
    THEN [cache |-> g.cache, reqs |-> g.reqs,
          out |-> connection_parameters(store, held)]
    ELSE IF /\ store # None
            /\ held.port = str(port)
            /\ held.database = database
            /\ held.host = host
            /\ held.user = user
    THEN [cache |-> g.cache, reqs |-> g.reqs, out |-> Return(None)]
    ELSE IF user = NoUser
    THEN [cache |-> g.cache, reqs |-> g.reqs,
          out |-> Raise("Exception", Text("Undefined user"))]
    ELSE [cache |-> EmptyCache,
          reqs |-> g.reqs \o
              <<Req(IF store # None THEN "PUT" ELSE "POST",
                    IF store # None
                    THEN Url(<<"workspaces", util_name(ws), "datastores", name>>)
                    ELSE Url(<<"workspaces", util_name(ws), "datastores.xml">>),
                    resp)>>,
          out |-> IF resp.status # 201 /\ resp.status # 200
                  THEN Raise("UploadError", resp.content)
                  ELSE Return(None)]

\* lines 312-315: a FailedRequestError of the lookup means no store; any other
\* exception leaves the call
pg_after_lookup(g, name, ws, overwrite, host, port, database, schema, user, passwd, held, resp) ==
    IF g.out.exc \notin {"none", "FailedRequestError"}
    THEN [cache |-> g.cache, reqs |-> g.reqs, out |-> g.out]
    ELSE pg_store_request(g, IF g.out.exc = "FailedRequestError" THEN None ELSE g.out.val,
                          name, ws, overwrite, host, port, database, schema, user,
                          passwd, held, resp)

pg_workspace(workspace) == IF workspace = None THEN get_default_workspace ELSE workspace

\* held: the connection parameters of the existing store, read only on the
\* overwrite path; resp: the answer to the PUT or POST, if one is made.
create_pg_featurestore(c, t, srv, name, workspace, overwrite, host, port, database, schema, user, passwd, held, resp) ==
    IF user = "" /\ passwd = ""
    THEN [cache |-> c, reqs |-> <<>>,
          out |-> Raise("Exception", Text("Both username and password are empty strings"))]
    ELSE pg_after_lookup(get_store(c, t, srv, name, pg_workspace(workspace)),
                         name, pg_workspace(workspace), overwrite, host, port, database,
                         schema, user, passwd, held, resp)

(***************************************************************************)
(* Actions.  Each applies one catalog call to the state.                   *)
(***************************************************************************)
Tick ==
    /\ now < MaxTime
    /\ now' = now + 1
    /\ UNCHANGED <<cache, server, last, hist, dialog>>

GetXmlCall ==
    \E u \in SampleUrls, resp \in GetResponses :
        \E r \in {get_xml(cache, now, u, resp)} :
            /\ cache' = r.cache
            /\ last' = Call("get_xml", [url |-> u], r)
            /\ hist' = HistAfter(hist, r.reqs, now)
            /\ UNCHANGED <<now, server, dialog>>

DeleteCall ==
    \E e \in Entities, purge \in BOOLEAN, recurse \in BOOLEAN, resp \in PushResponses :
        \E r \in {delete(cache, e, purge, recurse, resp)} :
            /\ cache' = r.cache
            /\ last' = Call("delete", [obj |-> e, purge |-> purge, recurse |-> recurse], r)
            /\ hist' = HistAfter(hist, r.reqs, now)
            /\ UNCHANGED <<now, server, dialog>>

SaveCall ==
    \E e \in Entities, resp \in PushResponses :
        \E r \in {save(cache, e, resp)} :
            /\ cache' = r.cache
            /\ last' = Call("save", [obj |-> e], r)
            /\ hist' = HistAfter(hist, r.reqs, now)
            /\ UNCHANGED <<now, server, dialog>>

ReloadCall ==
    \E resp \in PushResponses :
        \E r \in {reload(cache, resp)} :
            /\ cache' = r.cache
            /\ last' = Call("reload", [none |-> None], r)
            /\ hist' = HistAfter(hist, r.reqs, now)
            /\ UNCHANGED <<now, server, dialog>>

CreatePgFeaturetypeCall ==
    \E ws \in {None, Workspace("topp")}, resp \in PushResponses :
        \E r \in {create_pg_featuretype(cache, "roads", "pg", ws, resp)} :
            /\ cache' = r.cache
            /\ last' = Call("create_pg_featuretype", [name |-> "roads", store |-> "pg", workspace |-> ws], r)
            /\ hist' = HistAfter(hist, r.reqs, now)
            /\ UNCHANGED <<now, server, dialog>>

WsArgs ==
    {None} \cup {Workspace(w) : w \in WsNames}
           \cup {Str(w) : w \in WsNames \cup {"cite"}}

GetStoreCall ==
    \E name \in StoreNames, workspace \in WsArgs :
        \E r \in {get_store(cache, now, server, name, workspace)} :
            /\ cache' = r.cache
            /\ last' = Call("get_store", [name |-> name, workspace |-> workspace], r)
            /\ hist' = HistAfter(hist, r.reqs, now)
            /\ UNCHANGED <<now, server, dialog>>

\* inputs of create_pg_featurestore: the defaults of the signature, and the
\* parameters an existing store may report
HeldSame == [host |-> "localhost", port |-> "5432", database |-> "db", user |-> "postgres"]

HeldParams ==
    {HeldSame, [HeldSame EXCEPT !.host = "10.0.0.7"], [HeldSame EXCEPT !.port = "5433"],
     [HeldSame EXCEPT !.database = "gis"], [HeldSame EXCEPT !.user = "admin"]}

PgWorkspaces == {None, Workspace("topp"), Str("topp")}

\* the calls made: with overwrite against every reported parameter set, without
\* overwrite under every status, and with the user empty or missing
PgCalls ==
    [overwrite : {TRUE}, user : {"postgres"}, held : HeldParams, status : {200, 500}]
    \cup [overwrite : {FALSE}, user : {"postgres"}, held : {HeldSame},
          status : {200, 201, 204, 500}]
    \cup [overwrite : BOOLEAN, user : {"", NoUser}, held : {HeldSame}, status : {200}]

CreatePgFeaturestoreCall ==
    \E workspace \in PgWorkspaces, a \in PgCalls :
        \E r \in {create_pg_featurestore(cache, now, server, "roads", workspace,
                     a.overwrite, "localhost", 5432, "db", "public", a.user, "",
                     a.held, [status |-> a.status, content |-> Text("No such resource")])} :
            /\ cache' = r.cache
            /\ last' = Call("create_pg_featurestore",
                            [name |-> "roads", workspace |-> workspace,
                             overwrite |-> a.overwrite, host |-> "localhost",
                             port |-> 5432, database |-> "db", user |-> a.user,
                             passwd |-> "", held |-> a.held], r)
            /\ hist' = HistAfter(hist, r.reqs, now)
            /\ UNCHANGED <<now, server, dialog>>

\* no dialog has been opened
NoDialog == [kind |-> "None"]

NoServer == [index |-> <<>>, stores |-> [sl \in Slots |-> 0]]

NoCall ==
    [op |-> "init", args |-> [none |-> None], out |-> Return(None), reqs |-> <<>>,
     pre |-> {}]

Init ==
    /\ cache = EmptyCache
    /\ now = 0
    /\ server = NoServer
    /\ last = NoCall
    /\ hist = <<>>
    /\ dialog = NoDialog

Next ==
    \/ Tick
    \/ GetXmlCall
    \/ DeleteCall
    \/ SaveCall
    \/ ReloadCall
    \/ CreatePgFeaturetypeCall

Spec == Init /\ [][Next]_vars

(***************************************************************************)
(* The lookups, against every server configuration within the bounds.      *)
(***************************************************************************)
InitLookup ==
    /\ cache = EmptyCache
    /\ now = 0
    /\ server \in ServerStates
    /\ last = NoCall
    /\ hist = <<>>
    /\ dialog = NoDialog

NextLookup ==
    \/ GetStoreCall

SpecLookup == InitLookup /\ [][NextLookup]_vars

(***************************************************************************)
(* Store creation, against the same server configurations.                 *)
(***************************************************************************)
NextCreate ==
    \/ CreatePgFeaturestoreCall

SpecCreate == InitLookup /\ [][NextCreate]_vars

(***************************************************************************)
(* What the server holds, counted independently of the lookup code.        *)
(***************************************************************************)
Held(srv, w, kind, name) ==
    IF w \in WsNames THEN srv.stores[<<w, kind, name>>] ELSE 0

Listed(srv, w) == Cardinality({i \in 1..Len(srv.index) : srv.index[i] = w})

ScopedGetStore == last.op = "get_store" /\ last.args.workspace # None

UnscopedGetStore == last.op = "get_store" /\ last.args.workspace = None

\* the workspace argument is an object, or a name workspaces.xml lists once
Resolved(srv, workspace) ==
    workspace.kind = "Workspace" \/ Listed(srv, workspace.name) = 1

(***************************************************************************)
(* C1: for every store name and every workspace, given as an object or as  *)
(* a name, when neither listing of the workspace holds an entry of that    *)
(* name, get_store(name, workspace) raises FailedRequestError; it returns  *)
(* neither a store nor an empty value.                                     *)
(***************************************************************************)
C1_ScopedNoMatchRaisesNotFound ==
    (/\ ScopedGetStore
     /\ Held(server, last.args.workspace.name, "dataStore", last.args.name) = 0
     /\ Held(server, last.args.workspace.name, "coverageStore", last.args.name) = 0)
    => last.out.exc = "FailedRequestError"

(***************************************************************************)
(* C2: scoped get_store(name, workspace), d and c the numbers of entries   *)
(* called name in the data-store and the coverage-store listing: (1,0)     *)
(* returns the data store handle, (0,1) the coverage store handle, and     *)
(* every d + c > 1 raises AmbiguousRequestError.  The workspace is an      *)
(* object or a name that resolves to one workspace.                        *)
(***************************************************************************)
C2_ScopedClassification ==
    (ScopedGetStore /\ Resolved(server, last.args.workspace)) =>
        LET w == last.args.workspace.name
            d == Held(server, w, "dataStore", last.args.name)
            c == Held(server, w, "coverageStore", last.args.name)
        IN  /\ (d = 1 /\ c = 0) =>
                last.out = Return([kind |-> "DataStore", name |-> last.args.name,
                                   workspace |-> Workspace(w)])
            /\ (d = 0 /\ c = 1) =>
                last.out = Return([kind |-> "CoverageStore", name |-> last.args.name,
                                   workspace |-> Workspace(w)])
            /\ (d + c > 1) => last.out.exc = "AmbiguousRequestError"

C2_Witness ==
    /\ ScopedGetStore
    /\ last.args.workspace = Str("topp")
    /\ Held(server, "topp", "dataStore", last.args.name) = 1
    /\ Held(server, "topp", "coverageStore", last.args.name) = 1
    /\ last.args.name = "roads"
    /\ last.out.exc = "AmbiguousRequestError"

(***************************************************************************)
(* C3: get_store(name) without a workspace looks the name up in every      *)
(* workspace get_workspaces returns and collects the lookups that did not  *)
(* fail: none collected raises FailedRequestError, more than one raises    *)
(* AmbiguousRequestError, exactly one returns that store; a workspace in   *)
(* which the lookup fails is skipped.                                      *)
(***************************************************************************)
\* the scoped lookup in w succeeds exactly when one entry of one listing matches
Succeeds(srv, w, name) ==
    Held(srv, w, "dataStore", name) + Held(srv, w, "coverageStore", name) = 1

Collected(srv, name) == {i \in 1..Len(srv.index) : Succeeds(srv, srv.index[i], name)}

HandleIn(srv, w, name) ==
    [kind |-> IF Held(srv, w, "dataStore", name) = 1 THEN "DataStore" ELSE "CoverageStore",
     name |-> name, workspace |-> Workspace(w)]

C3_UnscopedCollects ==
    UnscopedGetStore =>
        LET got == Collected(server, last.args.name)
        IN  /\ got = {} => last.out.exc = "FailedRequestError"
            /\ Cardinality(got) > 1 => last.out.exc = "AmbiguousRequestError"
            /\ Cardinality(got) = 1 =>
                 last.out = Return(HandleIn(server,
                                server.index[CHOOSE i \in got : TRUE], last.args.name))

\* the first workspace holds another store only (its lookup fails), the second
\* holds the name once
C3_Witness ==
    /\ UnscopedGetStore
    /\ server.index = <<"default", "topp">>
    /\ last.args.name = "roads"
    /\ Held(server, "default", "dataStore", "dem") = 1
    /\ Held(server, "topp", "coverageStore", "roads") = 1
    /\ last.out = Return([kind |-> "CoverageStore", name |-> last.args.name,
                          workspace |-> Workspace("topp")])

(***************************************************************************)
(* Helpers of the cache claims.                                            *)
(***************************************************************************)
WellFormed(payload) == payload.kind = "xml"

TreeOf(payload) == [kind |-> "tree", children |-> payload.children]

Success(status) == 200 <= status /\ status <= 299

\* the single PUT/POST/DELETE request of the last call
Sent == SelectSeq(last.reqs, LAMBDA q : q.method # "GET")

(***************************************************************************)
(* C4: a get_xml(url) made less than 5 seconds after a get_xml(url) that   *)
(* received status 200, with no mutating request in between, returns the   *)
(* parse of the payload received then and sends no request.                *)
(***************************************************************************)
C4_FreshEntryServedFromCache ==
    [][(/\ last'.op = "get_xml"
        /\ now' = now
        /\ last'.args.url \in DOMAIN hist
        /\ now - hist[last'.args.url].ts < 5)
       => (/\ last'.reqs = <<>>
           /\ LET payload == hist[last'.args.url].content
              IN  IF WellFormed(payload)
                  THEN last'.out = Return(TreeOf(payload))
                  ELSE last'.out.exc = "Exception")]_vars

\* a well-formed payload received at time 0 is returned, unrequested, at time 4
C4_Witness ==
    /\ last.op = "get_xml"
    /\ last.reqs = <<>>
    /\ now = 4
    /\ last.args.url \in DOMAIN hist
    /\ hist[last.args.url].ts = 0
    /\ last.out = Return(TreeOf(Doc(<<Elem("layer", "roads")>>)))

(***************************************************************************)
(* C5: after any mutating catalog call whose PUT/POST/DELETE request       *)
(* succeeded the response cache is empty, so that the next get_xml of any  *)
(* URL sends a request.                                                    *)
(***************************************************************************)
C5_SuccessfulMutationEmptiesCache ==
    (Len(Sent) > 0 /\ \A i \in 1..Len(Sent) : Success(Sent[i].status))
    => cache = EmptyCache

(***************************************************************************)
(* C6: whenever delete has sent its DELETE request and received an answer, *)
(* the cache is empty when delete returns or raises, whatever the status   *)
(* and whatever was cached before.                                         *)
(***************************************************************************)
C6_DeleteEmptiesCache ==
    last.op = "delete" => cache = EmptyCache

\* a refused delete, made while both sample URLs were cached
C6_Witness ==
    /\ last.op = "delete"
    /\ last.pre = SampleUrls
    /\ last.reqs[1].status = 500
    /\ last.out.exc = "FailedRequestError"
    /\ cache = EmptyCache

(***************************************************************************)
(* C8: a GET answered 200 with a payload that is not well-formed XML makes *)
(* get_xml raise a decode error that carries the request URL and the raw   *)
(* payload, on the transport path and when the payload comes from the      *)
(* cache.                                                                  *)
(***************************************************************************)
IsDecodeErrorOf(out, u, payload) ==
    /\ out.exc = "Exception"
    /\ out.val.kind = "decode"
    /\ out.val.url = u
    /\ out.val.payload = payload

C8_MalformedRaisesDecodeError ==
    last.op = "get_xml" =>
        LET u == last.args.url
        IN  /\ (/\ last.reqs # <<>>
                /\ last.reqs[1].status = 200
                /\ ~WellFormed(last.reqs[1].content))
               => IsDecodeErrorOf(last.out, u, last.reqs[1].content)
            /\ (/\ last.reqs = <<>>
                /\ u \in DOMAIN cache
                /\ ~WellFormed(cache[u].content))
               => IsDecodeErrorOf(last.out, u, cache[u].content)

\* the malformed payload is served from the cache, some time after it was stored
C8_Witness ==
    /\ last.op = "get_xml"
    /\ last.reqs = <<>>
    /\ last.args.url \in DOMAIN cache
    /\ cache[last.args.url] = [ts |-> 1, content |-> Garbage]
    /\ now = 3
    /\ IsDecodeErrorOf(last.out, last.args.url, Garbage)

(***************************************************************************)
(* C9: delete returns the (response, content) pair for every status in     *)
(* 200..299 and raises FailedRequestError carrying the response body for   *)
(* every status outside 200..299.                                          *)
(***************************************************************************)
C9_DeleteAccepts2xx ==
    last.op = "delete" =>
        LET q == last.reqs[1]
        IN  IF Success(q.status)
            THEN last.out = Return([kind |-> "pair", response |-> q.status,
                                    content |-> q.content])
            ELSE last.out = Raise("FailedRequestError", q.content)

PgCall == last.op = "create_pg_featurestore"

\* the workspace the call addresses: the default one when none is given
PgTarget == IF last.args.workspace = None THEN Workspace("default") ELSE last.args.workspace

PgDataStores == Held(server, PgTarget.name, "dataStore", last.args.name)

PgCoverageStores == Held(server, PgTarget.name, "coverageStore", last.args.name)

SameConnection ==
    /\ last.args.held.host = last.args.host
    /\ last.args.held.port = str(last.args.port)
    /\ last.args.held.database = last.args.database
    /\ last.args.held.user = last.args.user

OnePutToStore ==
    /\ Len(Sent) = 1
    /\ Sent[1].method = "PUT"
    /\ Sent[1].url = [path |-> <<"workspaces", PgTarget.name, "datastores", last.args.name>>,
                      query |-> <<>>]

(***************************************************************************)
(* C7: create_pg_featurestore with overwrite=True when a store of that     *)
(* name already exists in the workspace: if the store's host, port,        *)
(* database and user all equal the arguments, no mutating request is sent  *)
(* and the cache is left unchanged; if any of the four differs, exactly    *)
(* one PUT is sent to the store's location and no POST.                    *)
(***************************************************************************)
C7_OverwriteIsNoopOrOnePut ==
    (/\ PgCall
     /\ last.args.overwrite
     /\ Resolved(server, PgTarget)
     /\ PgDataStores = 1
     /\ PgCoverageStores = 0)
    => IF SameConnection
       THEN Sent = <<>> /\ DOMAIN cache = last.pre
       ELSE OnePutToStore

(***************************************************************************)
(* C7 as amended: the existing store is the one data store the lookup      *)
(* resolves and the credentials pass the call's checks (user and passwd    *)
(* not both empty, user not None).  With equal host, port, database and    *)
(* user the call returns without a mutating request and without clearing   *)
(* the cache, to which the lookup's GETs may add; with any of the four     *)
(* different it sends exactly one PUT, to the store's location, and no     *)
(* POST.                                                                   *)
(***************************************************************************)
C7_OverwriteAmended ==
    (/\ PgCall
     /\ last.args.overwrite
     /\ Resolved(server, PgTarget)
     /\ PgDataStores = 1
     /\ PgCoverageStores = 0
     /\ ~(last.args.user = "" /\ last.args.passwd = "")
     /\ last.args.user # NoUser)
    => IF SameConnection
       THEN Sent = <<>> /\ last.pre \subseteq DOMAIN cache /\ last.out = Return(None)
       ELSE OnePutToStore

\* the store reports another user: one PUT, after a call that had filled the cache
C7_Witness ==
    /\ PgCall
    /\ last.args.overwrite
    /\ last.args.workspace = Str("topp")
    /\ PgDataStores = 1
    /\ PgCoverageStores = 0
    /\ last.args.user = "postgres"
    /\ last.args.held.user = "admin"
    /\ last.pre # {}
    /\ OnePutToStore
    /\ cache = EmptyCache

\* the store reports the same connection: nothing is sent, the cache is kept
C7_NoopReached ==
    /\ PgCall
    /\ last.args.overwrite
    /\ PgDataStores = 1
    /\ PgCoverageStores = 0
    /\ SameConnection
    /\ Sent = <<>>
    /\ last.pre # {}
    /\ last.pre \subseteq DOMAIN cache

(***************************************************************************)
(* The server's styles, layers and layer groups.  A server state of the    *)
(* upload specifications extends the workspace/store configuration with    *)
(* styles: the scopes (GlobalScope or a workspace name) that hold the      *)
(* style StyleName; layers: the layer names; groups: the layer group names *)
(* layergroups.xml lists.                                                  *)
(***************************************************************************)
StyleName == "line"

LayerName == "roads"

GroupName == "base"

GlobalScope == "<global>"

\* style.Style(catalog, name, workspace): the handle of a style
Style(name, workspace) == [kind |-> "Style", name |-> name, workspace |-> workspace]

\* layer.Layer(catalog, name): the handle of a layer
Layer(name) == [kind |-> "Layer", name |-> name]

\* layergroup.LayerGroup / UnsavedLayerGroup: the handle of a layer group
LayerGroup(name) == [kind |-> "LayerGroup", name |-> name]

UnsavedLayerGroup(name) == [kind |-> "UnsavedLayerGroup", name |-> name]

style_url(name, workspace) ==
    IF workspace = None
    THEN Url(<<"styles", name \o ".xml">>)
    ELSE Url(<<"workspaces", workspace.name, "styles", name \o ".xml">>)

\* Layer.href
layer_url(name) == Url(<<"layers", name \o ".xml">>)

LayergroupsUrl == Url(<<"layergroups.xml">>)

\* the answer to a GET of a server that also holds styles, layers and groups
RespondAll(srv, u) ==
    IF u = style_url(StyleName, None)
    THEN IF GlobalScope \in srv.styles
         THEN [status |-> 200, content |-> Doc(<<Elem("style", StyleName)>>)]
         ELSE NotFound
    ELSE IF \E w \in WsNames : u = style_url(StyleName, Workspace(w))
    THEN IF \E w \in srv.styles \cap WsNames : u = style_url(StyleName, Workspace(w))
         THEN [status |-> 200, content |-> Doc(<<Elem("style", StyleName)>>)]
         ELSE NotFound
    ELSE IF u = layer_url(LayerName)
    THEN IF LayerName \in srv.layers
         THEN [status |-> 200, content |-> Doc(<<Elem("layer", LayerName)>>)]
         ELSE NotFound
    ELSE IF u = LayergroupsUrl
    THEN [status |-> 200,
          content |-> Doc([i \in 1..Len(srv.groups) |-> Elem("layerGroup", srv.groups[i])])]
    ELSE Respond(srv, u)

(***************************************************************************)
(* Catalog.get_style                                                       *)
(***************************************************************************)
\* lines 575-581: any failure of the GET, a decode error included, gives None
get_style_in(c, t, srv, name, workspace) ==
    LET r == get_xml(c, t, style_url(name, workspace),
                     RespondAll(srv, style_url(name, workspace)))
    IN  [r EXCEPT !.out = IF r.out.exc = "none"
                          THEN Return(Style(name, workspace))
                          ELSE Return(None)]

\* lines 589-593: the first workspace that holds the style
RECURSIVE get_style_loop(_, _, _, _, _)
get_style_loop(c, t, srv, name, wss) ==
    IF wss = <<>>
    THEN [cache |-> c, reqs |-> <<>>, out |-> Return(None)]
    ELSE LET r == get_style_in(c, t, srv, name, Head(wss))
         IN  IF r.out.val # None THEN r
             ELSE Chain(r, get_style_loop(r.cache, t, srv, name, Tail(wss)))

\* lines 589-593, once the global GET (r) has failed
get_style_workspaces(r, t, srv, name) ==
    LET w == get_workspaces(r.cache, t, srv)
    IN  IF w.out.exc # "none" THEN Chain(r, w)
        ELSE Chain(r, Chain(w, get_style_loop(w.cache, t, srv, name, w.out.val.items)))

get_style(c, t, srv, name, workspace) ==
    IF workspace # None
    THEN get_style_in(c, t, srv, name, workspace)
    ELSE LET r == get_xml(c, t, style_url(name, None),
                          RespondAll(srv, style_url(name, None)))
         IN  IF r.out.exc = "none"
             THEN [r EXCEPT !.out = Return(Style(name, None))]
             ELSE get_style_workspaces(r, t, srv, name)

(***************************************************************************)
(* Catalog.get_layer, Catalog.get_layergroups                              *)
(***************************************************************************)
\* Layer.fetch reads the layer's href through get_xml
get_layer(c, t, srv, name) ==
    LET r == get_xml(c, t, layer_url(name), RespondAll(srv, layer_url(name)))
    IN  IF r.out.exc = "none" THEN [r EXCEPT !.out = Return(Layer(name))]
        ELSE IF r.out.exc = "FailedRequestError" THEN [r EXCEPT !.out = Return(None)]
        ELSE r

get_layergroups(c, t, srv) ==
    LET r == get_xml(c, t, LayergroupsUrl, RespondAll(srv, LayergroupsUrl))
    IN  IF r.out.exc # "none" THEN r
        ELSE LET nodes == findall(r.out.val, "layerGroup")
             IN  [r EXCEPT !.out = Return([kind |-> "list",
                     items |-> [i \in 1..Len(nodes) |-> LayerGroup(nodes[i].name)]])]

(***************************************************************************)
(* Catalog.create_style                                                    *)
(***************************************************************************)
UploadFailed(resp) == resp.status < 200 \/ resp.status > 299

\* lines 618-625: the PUT of the SLD body, after the requests sent so far
style_put(reqs, name, resp_put) ==
    [cache |-> EmptyCache,
     reqs |-> reqs \o <<Req("PUT", Url(<<"styles", name \o ".sld">>), resp_put)>>,
     out |-> IF UploadFailed(resp_put)
             THEN Raise("UploadError", resp_put.content)
             ELSE Return(None)]

\* a plausible slip: the cache is cleared as soon as the POST has been answered
style_requests_clearing_early(g, style, name, overwrite, resp_post, resp_put) ==
    IF ~overwrite /\ style # None
    THEN [cache |-> g.cache, reqs |-> g.reqs,
          out |-> Raise("ConflictingDataError", Text("There is already a style named %s"))]
    ELSE IF ~overwrite \/ style = None
    THEN IF UploadFailed(resp_post)
         THEN [cache |-> EmptyCache,
               reqs |-> g.reqs \o
                   <<Req("POST", [path |-> <<"styles">>, query |-> <<"name=" \o name>>],
                         resp_post)>>,
               out |-> Raise("UploadError", resp_post.content)]
         ELSE style_put(g.reqs \o
                   <<Req("POST", [path |-> <<"styles">>, query |-> <<"name=" \o name>>],
                         resp_post)>>,
                   name, resp_put)
    ELSE style_put(g.reqs, name, resp_put)

\* lines 601-625, once get_style (g) has answered with style
style_requests(g, style, name, overwrite, resp_post, resp_put) ==
    IF ~overwrite /\ style # None
    THEN [cache |-> g.cache, reqs |-> g.reqs,
          out |-> Raise("ConflictingDataError", Text("There is already a style named %s"))]
    ELSE IF ~overwrite \/ style = None
    THEN IF UploadFailed(resp_post)
         THEN [cache |-> g.cache,
               reqs |-> g.reqs \o
                   <<Req("POST", [path |-> <<"styles">>, query |-> <<"name=" \o name>>],
                         resp_post)>>,
               out |-> Raise("UploadError", resp_post.content)]
         ELSE style_put(g.reqs \o
                   <<Req("POST", [path |-> <<"styles">>, query |-> <<"name=" \o name>>],
                         resp_post)>>,
                   name, resp_put)
    ELSE style_put(g.reqs, name, resp_put)

style_after_lookup(g, name, overwrite, resp_post, resp_put) ==
    IF g.out.exc # "none" THEN g
    ELSE style_requests(g, g.out.val, name, overwrite, resp_post, resp_put)

\* resp_post, resp_put: the answers to the POST and to the PUT, if they are made
create_style(c, t, srv, name, overwrite, resp_post, resp_put) ==
    style_after_lookup(get_style(c, t, srv, name, None), name, overwrite,
                       resp_post, resp_put)

(***************************************************************************)
(* Catalog.create_shp_featurestore, Catalog.create_coveragestore,          *)
(* Catalog.add_data_to_store                                               *)
(***************************************************************************)
\* the query string of the upload URL
upload_params(overwrite, charset) ==
    (IF overwrite THEN <<"update=overwrite">> ELSE <<>>)
    \o (IF charset # None THEN <<"charset=" \o charset.name>> ELSE <<>>)

\* the PUT of a file: only 201 is accepted; the cache is cleared before the check
file_put(reqs, u, resp) ==
    [cache |-> EmptyCache,
     reqs |-> reqs \o <<Req("PUT", u, resp)>>,
     out |-> IF resp.status # 201
             THEN Raise("UploadError", resp.content)
             ELSE Return(None)]

\* lines 404-413: g is the lookup made when overwrite is not set; any normal
\* return of get_store raises the conflict, FailedRequestError is passed over
collision(g, name, ws) ==
    IF g.out.exc = "none"
    THEN [g EXCEPT !.out = Raise("ConflictingDataError", AlreadyThere(name, ws))]
    ELSE IF g.out.exc = "FailedRequestError"
    THEN [g EXCEPT !.out = Return(None)]
    ELSE g

\* the lookup of the collision check, or nothing when overwrite is set
collision_check(c, t, srv, name, ws, overwrite) ==
    IF overwrite
    THEN [cache |-> c, reqs |-> <<>>, out |-> Return(None)]
    ELSE collision(get_store(c, t, srv, name, ws), name, ws)

shp_upload(k, name, ws, charset, resp) ==
    IF k.out.exc # "none" THEN k
    ELSE file_put(k.reqs,
                  [path |-> <<"workspaces", util_name(ws), "datastores", name, "file.shp">>,
                   query |-> upload_params(FALSE, charset)],
                  resp)

create_shp_featurestore(c, t, srv, name, workspace, overwrite, charset, resp) ==
    shp_upload(collision_check(c, t, srv, name, pg_workspace(workspace), overwrite),
               name, pg_workspace(workspace), charset, resp)

\* line 482 reads workspace.name: a workspace given as a name has no such attribute
coverage_upload(k, name, ws, ext, resp) ==
    IF k.out.exc # "none" THEN k
    ELSE IF isinstance_basestring(ws)
    THEN [k EXCEPT !.out = Raise("AttributeError", Text("name"))]
    ELSE file_put(k.reqs,
                  Url(<<"workspaces", ws.name, "coveragestores", name, "file." \o ext>>),
                  resp)

\* ext: "worldimage" for a bundle with a tfw file, else "geotiff"
create_coveragestore(c, t, srv, name, workspace, overwrite, ext, resp) ==
    coverage_upload(collision_check(c, t, srv, name, pg_workspace(workspace), overwrite),
                    name, pg_workspace(workspace), ext, resp)

\* lines 272-301, with store the handle to upload into
add_data_upload(g, store, workspace, overwrite, charset, resp) ==
    IF store = None
    THEN [g EXCEPT !.out = Raise("AttributeError", Text("workspace"))]
    ELSE IF workspace # None /\ store.workspace.name # util_name(workspace)
    THEN [g EXCEPT !.out = Raise("AssertionError",
                                 Text("Specified store is not in specified workspace"))]
    ELSE file_put(g.reqs,
                  [path |-> <<"workspaces", store.workspace.name, "datastores",
                              store.name, "file.shp">>,
                   query |-> upload_params(overwrite, charset)],
                  resp)

add_data_lookup(g, workspace, overwrite, charset, resp) ==
    IF g.out.exc # "none" THEN g
    ELSE add_data_upload(g, g.out.val, workspace, overwrite, charset, resp)

\* store: a handle, or a name (a basestring) looked up with get_store
add_data_to_store(c, t, srv, store, workspace, overwrite, charset, resp) ==
    IF isinstance_basestring(store)
    THEN add_data_lookup(get_store(c, t, srv, store.name, workspace),
                         workspace, overwrite, charset, resp)
    ELSE add_data_upload([cache |-> c, reqs |-> <<>>, out |-> Return(None)],
                         store, workspace, overwrite, charset, resp)

(***************************************************************************)
(* Catalog.create_workspace, Catalog.create_layergroup                     *)
(***************************************************************************)
NamespacesUrl == Url(<<"namespaces">>)

\* the assertion at line 636 precedes the clearing of the cache
create_workspace(c, t, srv, name, resp) ==
    IF ~(200 <= resp.status /\ resp.status < 300)
    THEN [cache |-> c, reqs |-> <<Req("POST", NamespacesUrl, resp)>>,
          out |-> Raise("AssertionError", resp.content)]
    ELSE Chain([cache |-> EmptyCache, reqs |-> <<Req("POST", NamespacesUrl, resp)>>,
                out |-> Return(None)],
               get_workspace(EmptyCache, t, srv, name))

layergroup_check(g, name) ==
    IF g.out.exc # "none" THEN g
    ELSE IF \E i \in 1..Len(g.out.val.items) : g.out.val.items[i].name = name
    THEN [g EXCEPT !.out = Raise("ConflictingDataError",
                                 Text("LayerGroup named %s already exists!"))]
    ELSE [g EXCEPT !.out = Return(UnsavedLayerGroup(name))]

create_layergroup(c, t, srv, name) == layergroup_check(get_layergroups(c, t, srv), name)

(***************************************************************************)
(* The creation and upload calls.                                          *)
(***************************************************************************)
StyleSets == {{}, {GlobalScope}, {"topp"}, {GlobalScope, "topp"}}

GroupDocs == {<<>>, <<GroupName>>}

\* the store configurations about the one store name the upload calls use
RoadsOnly == {srv \in ServerStates : \A sl \in Slots : sl[3] = "dem" => srv.stores[sl] = 0}

\* servers of the store uploads: no styles, layers or groups
UploadServers ==
    {[index |-> srv.index, stores |-> srv.stores, styles |-> {}, layers |-> {},
      groups |-> <<>>] : srv \in RoadsOnly}

\* servers of the style, layer and layer group calls: no stores
StyleServers ==
    {[index |-> ix, stores |-> [sl \in Slots |-> 0], styles |-> st, layers |-> ly,
      groups |-> g] : ix \in IndexDocs, st \in StyleSets,
                      ly \in {{}, {LayerName}}, g \in GroupDocs}

Answer(status) == [status |-> status, content |-> Text("No such resource")]

CreateStyleCall ==
    \E overwrite \in BOOLEAN, post \in {201, 500}, put \in {200, 404} :
        \E r \in {create_style(cache, now, server, StyleName, overwrite,
                               Answer(post), Answer(put))} :
            /\ cache' = r.cache
            /\ last' = Call("create_style", [name |-> StyleName, overwrite |-> overwrite], r)
            /\ hist' = HistAfter(hist, r.reqs, now)
            /\ UNCHANGED <<now, server, dialog>>

ShpCalls ==
    [workspace : {None, Workspace("topp"), Str("topp"), Str("cite")}, overwrite : {FALSE},
     charset : {None}, status : {200, 201, 500}]
    \cup [workspace : {None}, overwrite : {TRUE}, charset : {None, Str("UTF-8")},
          status : {201, 500}]

CreateShpFeaturestoreCall ==
    \E a \in ShpCalls :
        \E r \in {create_shp_featurestore(cache, now, server, "roads", a.workspace,
                                          a.overwrite, a.charset, Answer(a.status))} :
            /\ cache' = r.cache
            /\ last' = Call("create_shp_featurestore",
                            [name |-> "roads", workspace |-> a.workspace,
                             overwrite |-> a.overwrite, charset |-> a.charset], r)
            /\ hist' = HistAfter(hist, r.reqs, now)
            /\ UNCHANGED <<now, server, dialog>>

CoverageCalls ==
    [workspace : {None, Str("topp")}, overwrite : BOOLEAN, ext : {"geotiff"},
     status : {201, 204}]
    \cup [workspace : {None}, overwrite : {TRUE}, ext : {"worldimage"}, status : {201}]

CreateCoveragestoreCall ==
    \E a \in CoverageCalls :
        \E r \in {create_coveragestore(cache, now, server, "roads", a.workspace,
                                       a.overwrite, a.ext, Answer(a.status))} :
            /\ cache' = r.cache
            /\ last' = Call("create_coveragestore",
                            [name |-> "roads", workspace |-> a.workspace,
                             overwrite |-> a.overwrite, ext |-> a.ext], r)
            /\ hist' = HistAfter(hist, r.reqs, now)
            /\ UNCHANGED <<now, server, dialog>>

AddDataCalls ==
    [store : {Str("roads"), datastore_from_index(Workspace("topp"), Elem("dataStore", "roads"))},
     workspace : {None, Workspace("topp"), Str("default")},
     overwrite : {FALSE}, status : {200, 201}]
    \cup [store : {Str("roads")}, workspace : {None, Workspace("topp")},
          overwrite : {TRUE}, status : {201}]

AddDataToStoreCall ==
    \E a \in AddDataCalls :
        \E r \in {add_data_to_store(cache, now, server, a.store, a.workspace,
                                    a.overwrite, None, Answer(a.status))} :
            /\ cache' = r.cache
            /\ last' = Call("add_data_to_store",
                            [store |-> a.store, workspace |-> a.workspace,
                             overwrite |-> a.overwrite], r)
            /\ hist' = HistAfter(hist, r.reqs, now)
            /\ UNCHANGED <<now, server, dialog>>

\* the server lists a workspace it has answered the creation of with 2xx
Created(srv, name, status) ==
    IF 200 <= status /\ status < 300 /\ name \notin Range(srv.index)
    THEN [srv EXCEPT !.index = Append(@, name)]
    ELSE srv

CreateWorkspaceCall ==
    \E name \in WsNames, status \in {200, 201, 302, 500} :
        \E r \in {create_workspace(cache, now, Created(server, name, status), name,
                                   Answer(status))} :
            /\ cache' = r.cache
            /\ last' = Call("create_workspace", [name |-> name], r)
            /\ hist' = HistAfter(hist, r.reqs, now)
            /\ server' = Created(server, name, status)
            /\ UNCHANGED <<now, dialog>>

CreateLayergroupCall ==
    \E name \in {GroupName, "overlay"} :
        \E r \in {create_layergroup(cache, now, server, name)} :
            /\ cache' = r.cache
            /\ last' = Call("create_layergroup", [name |-> name], r)
            /\ hist' = HistAfter(hist, r.reqs, now)
            /\ UNCHANGED <<now, server, dialog>>

InitUpload ==
    /\ cache = EmptyCache
    /\ now = 0
    /\ server \in UploadServers
    /\ last = NoCall
    /\ hist = <<>>
    /\ dialog = NoDialog

NextUpload ==
    \/ CreateShpFeaturestoreCall
    \/ CreateCoveragestoreCall
    \/ AddDataToStoreCall
    \/ CreateWorkspaceCall

SpecUpload == InitUpload /\ [][NextUpload]_vars

InitStyle ==
    /\ cache = EmptyCache
    /\ now = 0
    /\ server \in StyleServers
    /\ last = NoCall
    /\ hist = <<>>
    /\ dialog = NoDialog

NextStyle ==
    \/ CreateStyleCall
    \/ CreateLayergroupCall

SpecStyle == InitStyle /\ [][NextStyle]_vars

(***************************************************************************)
(* Helpers of the creation and upload claims.                              *)
(***************************************************************************)
FileUploads == {"create_shp_featurestore", "create_coveragestore", "add_data_to_store"}

CreationCalls ==
    FileUploads \cup {"create_pg_featurestore", "create_pg_featuretype", "create_style",
                      "create_workspace"}

\* the success range of a creation call: exactly 201 for the file uploads
InSuccessRange(op, status) ==
    IF op \in FileUploads THEN status = 201 ELSE Success(status)

(***************************************************************************)
(* C11: every creation or upload call that sends a request raises          *)
(* UploadError carrying the response body whenever the answer's status is  *)
(* outside its success range (200..299, exactly 201 for the file uploads)  *)
(* and completes without error whenever the status is inside it.           *)
(***************************************************************************)
C11_UploadErrorOutsideSuccessRange ==
    (last.op \in CreationCalls /\ Sent # <<>>) =>
        LET q == Sent[Len(Sent)]
        IN  IF InSuccessRange(last.op, q.status)
            THEN last.out.exc = "none"
            ELSE last.out = Raise("UploadError", q.content)

(***************************************************************************)
(* Helpers of the collision claim: what the server holds under the         *)
(* requested name, in the scope the call addresses.                        *)
(***************************************************************************)
StoreCreations == {"create_pg_featurestore", "create_shp_featurestore", "create_coveragestore"}

CollisionCalls == StoreCreations \cup {"create_style", "create_layergroup"}

\* create_layergroup has no overwrite flag
OverwriteSet == "overwrite" \in DOMAIN last.args /\ last.args.overwrite

StyleHeld(srv) ==
    GlobalScope \in srv.styles \/ \E i \in 1..Len(srv.index) : srv.index[i] \in srv.styles

EntityExists ==
    IF last.op \in StoreCreations THEN PgDataStores + PgCoverageStores >= 1
    ELSE IF last.op = "create_style" THEN StyleHeld(server)
    ELSE \E i \in 1..Len(server.groups) : server.groups[i] = last.args.name

(***************************************************************************)
(* C12: for create_pg_featurestore, create_shp_featurestore,               *)
(* create_coveragestore, create_style and create_layergroup, when an       *)
(* entity of the requested name exists in the target scope and overwrite   *)
(* is not set, the call raises ConflictingDataError, sends no              *)
(* PUT/POST/DELETE and leaves the cache uncleared; when no such entity     *)
(* exists the collision check does not fail the call.                      *)
(***************************************************************************)
C12_CollisionWithoutOverwrite ==
    last.op \in CollisionCalls =>
        /\ (EntityExists /\ ~OverwriteSet) =>
               /\ last.out.exc = "ConflictingDataError"
               /\ Sent = <<>>
               /\ last.pre \subseteq DOMAIN cache
        /\ ~EntityExists => last.out.exc # "ConflictingDataError"

(***************************************************************************)
(* Catalog.get_resource with a store, and the by-name lookups as calls.    *)
(***************************************************************************)
\* a resource handle as store.get_resources() returns it
Resource(name, store) == [kind |-> "Resource", name |-> name, store |-> store]

\* lines 494-501; resources is the list store.get_resources() returned
get_resource(c, name, store, resources) ==
    LET candidates == SelectSeq(resources, LAMBDA r : r.name = name)
    IN  [cache |-> c, reqs |-> <<>>,
         out |-> IF Len(candidates) = 0 THEN Return(None)
                 ELSE IF Len(candidates) > 1
                      THEN Raise("AmbiguousRequestError", Text(""))
                      ELSE Return(candidates[1])]

GetWorkspaceCall ==
    \E name \in WsNames \cup {"cite"} :
        \E r \in {get_workspace(cache, now, server, name)} :
            /\ cache' = r.cache
            /\ last' = Call("get_workspace", [name |-> name], r)
            /\ hist' = HistAfter(hist, r.reqs, now)
            /\ UNCHANGED <<now, server, dialog>>

GetStyleCall ==
    \E workspace \in {None} \cup {Workspace(w) : w \in WsNames} :
        \E r \in {get_style(cache, now, server, StyleName, workspace)} :
            /\ cache' = r.cache
            /\ last' = Call("get_style", [name |-> StyleName, workspace |-> workspace], r)
            /\ hist' = HistAfter(hist, r.reqs, now)
            /\ UNCHANGED <<now, server, dialog>>

GetLayerCall ==
    \E name \in {LayerName} :
        \E r \in {get_layer(cache, now, server, name)} :
            /\ cache' = r.cache
            /\ last' = Call("get_layer", [name |-> name], r)
            /\ hist' = HistAfter(hist, r.reqs, now)
            /\ UNCHANGED <<now, server, dialog>>

PgStore == datastore_from_index(Workspace("topp"), Elem("dataStore", "pg"))

ResourceLists ==
    {<<>>, <<Resource("rivers", PgStore)>>, <<Resource("roads", PgStore)>>,
     <<Resource("rivers", PgStore), Resource("roads", PgStore)>>,
     <<Resource("roads", PgStore), Resource("roads", PgStore)>>}

GetResourceCall ==
    \E resources \in ResourceLists :
        \E r \in {get_resource(cache, "roads", PgStore, resources)} :
            /\ cache' = r.cache
            /\ last' = Call("get_resource",
                            [name |-> "roads", store |-> PgStore, resources |-> resources], r)
            /\ hist' = HistAfter(hist, r.reqs, now)
            /\ UNCHANGED <<now, server, dialog>>

NextFind ==
    \/ GetWorkspaceCall
    \/ GetStyleCall
    \/ GetLayerCall
    \/ GetResourceCall

SpecFind == InitStyle /\ [][NextFind]_vars

(***************************************************************************)
(* Helpers of the lookup claim: the matches the searched scope holds.      *)
(***************************************************************************)
FindCalls == {"get_workspace", "get_style", "get_layer", "get_resource"}

\* the scopes in which an unscoped get_style looks, in the order it looks
StyleScopes(srv) == <<GlobalScope>> \o srv.index

StyleMatches(srv, workspace) ==
    IF workspace # None
    THEN IF workspace.name \in srv.styles THEN <<workspace.name>> ELSE <<>>
    ELSE SelectSeq(StyleScopes(srv), LAMBDA sc : sc \in srv.styles)

StyleIn(name, sc) == Style(name, IF sc = GlobalScope THEN None ELSE Workspace(sc))

Matches ==
    IF last.op = "get_workspace" THEN Listed(server, last.args.name)
    ELSE IF last.op = "get_style" THEN Len(StyleMatches(server, last.args.workspace))
    ELSE IF last.op = "get_layer"
         THEN (IF last.args.name \in server.layers THEN 1 ELSE 0)
    ELSE Len(SelectSeq(last.args.resources, LAMBDA r : r.name = last.args.name))

C13_StyleFirstMatchReached ==
    /\ last.op = "get_style"
    /\ last.args.workspace = None
    /\ Matches > 1
    /\ last.out = Return(Style(StyleName, None))

(***************************************************************************)
(* C14: a name lookup never silently picks one of several matches: for     *)
(* get_store(name) without a workspace, whenever more than one store       *)
(* called name exists across the listed workspaces, the call raises        *)
(* AmbiguousRequestError; the only failure of a workspace's lookup that    *)
(* the search passes over is the store being absent from that workspace.   *)
(***************************************************************************)
StoresNamed(srv, name) ==
    Sum([w \in Range(srv.index) |->
            Held(srv, w, "dataStore", name) + Held(srv, w, "coverageStore", name)],
        Range(srv.index))

C14_UnscopedNeverPicksSilently ==
    (UnscopedGetStore /\ StoresNamed(server, last.args.name) > 1)
    => last.out.exc = "AmbiguousRequestError"

(***************************************************************************)
(* C15: across any sequence of get_xml and mutating calls, a cache entry   *)
(* of a URL is written only by a get_xml of that URL whose request was     *)
(* answered 200; a get_xml answered with another status raises             *)
(* FailedRequestError and leaves every cache entry, a stale entry of the   *)
(* same URL included, unchanged; a get_xml sends at most one request.      *)
(***************************************************************************)
Written(u) == u \in DOMAIN cache' /\ (u \notin DOMAIN cache \/ cache'[u] # cache[u])

C15_CacheWrittenOnlyBy200 ==
    [][/\ \A u \in SampleUrls :
            Written(u) =>
                /\ last'.op = "get_xml"
                /\ last'.args.url = u
                /\ Len(last'.reqs) = 1
                /\ last'.reqs[1].status = 200
                /\ cache'[u] = [ts |-> now, content |-> last'.reqs[1].content]
       /\ last'.op = "get_xml" =>
            /\ Len(last'.reqs) <= 1
            /\ (last'.reqs # <<>> /\ last'.reqs[1].status # 200) =>
                   /\ last'.out = Raise("FailedRequestError", last'.reqs[1].content)
                   /\ cache' = cache]_vars

\* a refused refetch of an expired entry: the entry is still there
C15_Witness ==
    /\ last.op = "get_xml"
    /\ last.reqs # <<>>
    /\ last.reqs[1].status = 404
    /\ last.out.exc = "FailedRequestError"
    /\ last.args.url \in DOMAIN cache
    /\ now - cache[last.args.url].ts >= 5
    /\ DOMAIN cache = SampleUrls

(***************************************************************************)
(* Helpers of the create_style claim.                                      *)
(***************************************************************************)
IsStylePost(q) ==
    q.method = "POST" /\ q.url = [path |-> <<"styles">>, query |-> <<"name=" \o last.args.name>>]

IsStylePut(q) ==
    q.method = "PUT" /\ q.url = [path |-> <<"styles", last.args.name \o ".sld">>, query |-> <<>>]

PutSent == \E i \in 1..Len(Sent) : Sent[i].method = "PUT"

\* the URLs the GETs of the last call were answered 200 for
Fetched == {last.reqs[i].url : i \in {j \in 1..Len(last.reqs) :
                last.reqs[j].method = "GET" /\ last.reqs[j].status = 200}}

\* the cache is cleared once the PUT is answered, and not before
ClearedWithPut ==
    IF PutSent THEN cache = EmptyCache ELSE DOMAIN cache = last.pre \cup Fetched

PostThenPut ==
    /\ Len(Sent) >= 1
    /\ IsStylePost(Sent[1])
    /\ IF UploadFailed(Sent[1])
       THEN Len(Sent) = 1 /\ last.out = Raise("UploadError", Sent[1].content)
       ELSE Len(Sent) = 2 /\ IsStylePut(Sent[2])

(***************************************************************************)
(* C16: create_style(name, sld, overwrite) orders its requests: with       *)
(* overwrite set and a style of the name existing it sends only the PUT of *)
(* the SLD body; otherwise it sends the POST that registers the style      *)
(* first and the PUT second, and when the POST is answered outside         *)
(* 200..299 it raises UploadError without sending the PUT; the cache is    *)
(* cleared only after the PUT has been answered.                           *)
(***************************************************************************)
C16_StyleRequestOrder ==
    last.op = "create_style" =>
        /\ IF last.args.overwrite /\ StyleHeld(server)
           THEN Len(Sent) = 1 /\ IsStylePut(Sent[1])
           ELSE PostThenPut
        /\ ClearedWithPut

(***************************************************************************)
(* C16 as amended: the same, except that with overwrite not set and a      *)
(* style of the name existing the call raises ConflictingDataError and     *)
(* sends neither the POST nor the PUT, the cache keeping its entries.      *)
(***************************************************************************)
C16_StyleRequestOrderAmended ==
    last.op = "create_style" =>
        /\ IF StyleHeld(server)
           THEN IF last.args.overwrite
                THEN Len(Sent) = 1 /\ IsStylePut(Sent[1])
                ELSE Sent = <<>> /\ last.out.exc = "ConflictingDataError"
           ELSE PostThenPut
        /\ ClearedWithPut

\* the POST is refused: no PUT follows, and what was cached before the call stays
C16_Witness ==
    /\ last.op = "create_style"
    /\ ~StyleHeld(server)
    /\ Len(Sent) = 1
    /\ IsStylePost(Sent[1])
    /\ Sent[1].status = 500
    /\ last.out.exc = "UploadError"
    /\ LayergroupsUrl \in last.pre
    /\ LayergroupsUrl \in DOMAIN cache

\* the POST is accepted: the PUT follows and the cache is empty
C16_PostThenPutReached ==
    /\ last.op = "create_style"
    /\ Len(Sent) = 2
    /\ IsStylePost(Sent[1])
    /\ IsStylePut(Sent[2])
    /\ last.pre # {}
    /\ cache = EmptyCache

(***************************************************************************)
(* DefineCatalogDialog (opengeo/gui/dialogs/catalogdialog.py).             *)
(* explorer: the keys of explorer.catalogs(); nameBox, urlBox: the text of *)
(* the boxes; name, url, ok: the fields of the dialog; settings: the       *)
(* QSettings entries the dialog writes; pressed: the handler run last.     *)
(***************************************************************************)
MaxSuffix == 4

Unset == "<unset>"

BaseName == "gs"

Suffixed(name, i) == name \o "_" \o str(i)

\* the catalog names an explorer may hold
CatalogKeys ==
    {BaseName, "local", Suffixed(Suffixed(BaseName, 2), 2)}
    \cup {Suffixed(BaseName, i) : i \in 2..MaxSuffix}

\* what the user may type in the name box
EnteredNames == {BaseName, Suffixed(BaseName, 2), "geoserver"}

\* a URL typed with or without its scheme
UrlTexts ==
    {[http |-> TRUE, text |-> "http://localhost:8080/geoserver"],
     [http |-> FALSE, text |-> "localhost:8080/geoserver"]}

\* line 114-116: '/rest' is appended, 'http://' is put in front when missing
rest_url_of(urlBox) ==
    IF urlBox.http THEN urlBox.text \o "/rest" ELSE "http://" \o urlBox.text \o "/rest"

\* a plausible slip: the name is checked once, with an if instead of the while
first_suffix(name, base, i, keys) ==
    IF name \in keys THEN Suffixed(base, i) ELSE name

\* lines 120-125: the loop, from its current name and counter
RECURSIVE unique_name(_, _, _, _)
unique_name(name, base, i, keys) ==
    IF name \in keys THEN unique_name(Suffixed(base, i), base, i + 1, keys) ELSE name

\* DefineCatalogDialog.__init__ and initGui: the boxes show the last values
DialogOpened(keys, lastName, lastUrl) ==
    [kind |-> "DefineCatalogDialog", explorer |-> keys, nameBox |-> lastName,
     urlBox |-> lastUrl, name |-> Unset, url |-> Unset, ok |-> FALSE, open |-> TRUE,
     pressed |-> "none",
     settings |-> [LastCatalogName |-> lastName, LastCatalogUrl |-> lastUrl, saved |-> {}]]

okPressed(d, saveCatalogs) ==
    [d EXCEPT !.url = rest_url_of(d.urlBox),
              !.name = unique_name(d.nameBox, d.nameBox, 2, d.explorer),
              !.settings = [LastCatalogName |-> d.nameBox, LastCatalogUrl |-> d.urlBox,
                            saved |-> IF saveCatalogs
                                      THEN d.settings.saved \cup
                                           {unique_name(d.nameBox, d.nameBox, 2, d.explorer)}
                                      ELSE d.settings.saved],
              !.ok = TRUE,
              !.open = FALSE,
              !.pressed = "okPressed"]

cancelPressed(d) == [d EXCEPT !.ok = FALSE, !.pressed = "cancelPressed"]

\* the user types in the name box
EditName ==
    /\ dialog.open
    /\ \E text \in EnteredNames :
           /\ text # dialog.nameBox
           /\ dialog' = [dialog EXCEPT !.nameBox = text]
    /\ UNCHANGED <<cache, now, server, last, hist>>

\* the user types in the URL box
EditUrl ==
    /\ dialog.open
    /\ \E text \in UrlTexts :
           /\ text # dialog.urlBox
           /\ dialog' = [dialog EXCEPT !.urlBox = text]
    /\ UNCHANGED <<cache, now, server, last, hist>>

OkPressed ==
    /\ dialog.open
    /\ \E saveCatalogs \in BOOLEAN : dialog' = okPressed(dialog, saveCatalogs)
    /\ UNCHANGED <<cache, now, server, last, hist>>

CancelPressed ==
    /\ dialog.open
    /\ dialog' = cancelPressed(dialog)
    /\ UNCHANGED <<cache, now, server, last, hist>>

InitDialog ==
    /\ cache = EmptyCache
    /\ now = 0
    /\ server = NoServer
    /\ last = NoCall
    /\ hist = <<>>
    /\ \E keys \in SUBSET CatalogKeys, lastName \in EnteredNames, lastUrl \in UrlTexts :
           dialog = DialogOpened(keys, lastName, lastUrl)

NextDialog ==
    \/ EditName
    \/ EditUrl
    \/ OkPressed
    \/ CancelPressed

SpecDialog == InitDialog /\ [][NextDialog]_vars

(***************************************************************************)
(* C17: after okPressed the stored catalog name is never a key of          *)
(* explorer.catalogs(): it is the entered name when that is unused, else   *)
(* the entered name followed by "_" and the smallest i >= 2 for which the  *)
(* suffixed name is unused; the search ends after at most as many steps as *)
(* there are catalogs; ok is true after okPressed and false after          *)
(* cancelPressed.                                                          *)
(***************************************************************************)
C17_StoredNameIsUnused ==
    /\ dialog.pressed = "okPressed" =>
         /\ dialog.ok
         /\ dialog.name \notin dialog.explorer
         /\ dialog.nameBox \notin dialog.explorer => dialog.name = dialog.nameBox
         /\ dialog.nameBox \in dialog.explorer =>
              \E i \in 2..(Cardinality(dialog.explorer) + 1) :
                  /\ dialog.name = dialog.nameBox \o "_" \o str(i)
                  /\ \A j \in 2..(i - 1) :
                         (dialog.nameBox \o "_" \o str(j)) \in dialog.explorer
    /\ dialog.pressed = "cancelPressed" => ~dialog.ok

\* the entered name and its first two suffixed forms are taken
C17_Witness ==
    /\ dialog.pressed = "okPressed"
    /\ dialog.nameBox = "gs"
    /\ {"gs", "gs_2", "gs_3"} \subseteq dialog.explorer
    /\ dialog.name = "gs_4"
    /\ dialog.ok

====
